---- MODULE Spec2Model ----
(***************************************************************************)
(* Kernel objects of ngraph/transformers/gpu/tensor_ops.py: the two-phase  *)
(* construct / bind_buffers / execute life cycle, the flex (dynamic fixed  *)
(* point) fill kernels, Send/Recv over a shared queue, and SetItem with    *)
(* its Dimshuffle fallback.                                                *)
(*                                                                         *)
(* Numbers.  Python floats are modelled as exact rationals <<n, d>> with   *)
(* d > 0; int(x) truncates toward zero.  A float tensor element is kept as *)
(* the numerator of a rational over the fixed denominator RawDen.          *)
(***************************************************************************)
EXTENDS Integers, Sequences, FiniteSets, TLC

VARIABLES
    \* ---- flex layer (FlexFillKernel, FlexRngFillKernel) ----
    flex_entry,     \* the tensor's FlexEntry: [scale, dtype]
    flex_tensor,    \* the allocated flex storage (integers), a sequence
    flexfill,       \* the FlexFillKernel object
    flexrng,        \* the FlexRngFillKernel object
    val,            \* FlexFillKernel.execute's local val of the last call
    out_float,      \* FlexRngFillKernel.execute: the scaled floats handed to astype
    \* ---- RngFillKernel ----
    rngfill,        \* the RngFillKernel object
    rng_out,        \* its allocated float tensor (numerators over RawDen)
    \* ---- Send / Recv ----
    shared_q,       \* the channels: queue id -> sequence of values in flight
    send,           \* pair -> the SendKernel object and its source tensor
    recv,           \* pair -> the RecvKernel object, its op and destination
    put_log,        \* pair -> the values its Send handed to q.put, in order
    get_log,        \* pair -> the values its Recv obtained from q.get, in order
    \* ---- DimShuffle / SetItem ----
    dimshuffle,     \* the DimShuffleKernel object
    setitem,        \* the SetItemKernel object (with its op's inputs)
    dest,           \* SetItem's allocated destination tensor (a sequence)
    ptr_calls,      \* kernel -> index -> number of pointer_from_td calls made
    binds,          \* kernel -> number of bind_buffers calls made
    calls,          \* the device calls issued so far, in order
    \* ---- FillKernel and device allocation ----
    allocated,      \* whether the transformer has allocated device memory
    fillkernel,     \* the FillKernel object
    fill_tensor,    \* FillKernel's destination tensor: [shape, data]
    \* ---- every kernel ----
    last_call,      \* the fill kernel method called last, "" before any call
    raised          \* the exception that call ended with, "" when it returned

flexVars == <<flex_entry, flex_tensor, flexfill, flexrng, val, out_float>>
rngVars  == <<rngfill, rng_out>>
chanVars == <<shared_q, send, recv, put_log, get_log>>
itemVars == <<dimshuffle, setitem, dest, ptr_calls, binds, calls>>
fillVars == <<allocated, fillkernel, fill_tensor>>
callVars == <<last_call, raised>>
vars     == <<flexVars, rngVars, chanVars, itemVars, fillVars, callVars>>

-----------------------------------------------------------------------------
(* Bounds of the model *)

NElems == 2      \* elements of a flat tensor
RawDen == 2      \* resolution of the sampled base distribution
MaxQueue == 1    \* values in flight on one channel
MaxSends == 2    \* Sends executed, over all pairs
MaxCalls == 2    \* device calls logged per kernel
MaxBinds == 2    \* bind_buffers calls per kernel

-----------------------------------------------------------------------------
(* Arithmetic *)

Abs(n) == IF n < 0 THEN -n ELSE n

\* int(n/d) for d > 0: Python's int() and C's float-to-int cast truncate
\* toward zero.
Trunc(n, d) == IF n >= 0 THEN n \div d ELSE -((-n) \div d)

RECURSIVE Pow2(_)
Pow2(k) == IF k = 0 THEN 1 ELSE 2 * Pow2(k - 1)

\* A call that returns / a call that raises: what every method leaves behind.
Returned(name) == last_call' = name /\ raised' = ""
Raised(name, exc) == last_call' = name /\ raised' = exc

\* tensor.fill(v): every element becomes v.
Fill(t, v) == [i \in DOMAIN t |-> v]

-----------------------------------------------------------------------------
(* Flex layer: inputs *)

\* The flex element types: clip bounds are the extreme values of the storage.
FlexDTypes ==
    { [bits |-> 8,  pclip |-> 127,   nclip |-> -128],
      [bits |-> 16, pclip |-> 32767, nclip |-> -32768] }

\* Scale factors a FlexEntry can carry (positive rationals).
Scales == { <<1, 1>>, <<1, 4>>, <<4, 1>> }

\* Fill values (rationals) on both sides of the clip bounds.
FillValues ==
    { <<0, 1>>, <<5, 2>>, <<-5, 2>>, <<127, 1>>, <<128, 1>>, <<-128, 1>>,
      <<-129, 1>>, <<300, 1>>, <<-300, 1>>, <<40000, 1>>, <<-40000, 1>> }

Distributions == { "uniform", "normal", "poisson" }

\* Distribution parameter dictionaries.
RngParams ==
    { [low |-> 0,     high |-> 4,     loc |-> 0,      scale |-> 1],
      [low |-> -1,    high |-> 1,     loc |-> 3,      scale |-> 2],
      [low |-> -200,  high |-> 200,   loc |-> 100,    scale |-> 100],
      [low |-> 30000, high |-> 50000, loc |-> -40000, scale |-> 1] }

\* Base samples as numerators over RawDen: fill_uniform draws from [0, 1),
\* fill_normal around 0 (here within [-1, 1]; the flex kernel is explored
\* with the samples -1, 0 and 1 only).
UniformRaw == 0 .. (RawDen - 1)
NormalRaw  == (-RawDen) .. RawDen
FlexNormalRaw == { -RawDen, 0, RawDen }

Elems == 1 .. NElems

-----------------------------------------------------------------------------
(* Flex layer: FlexFillKernel *)

NoFlexFill == [phase |-> "absent", value |-> <<0, 1>>, attrs |-> {},
               scale |-> <<1, 1>>, maxabs |-> 0]
NoFlexRng  == [phase |-> "absent", distribution |-> "uniform",
               params |-> CHOOSE p \in RngParams : p.low = 0,
               attrs |-> {}, scale |-> <<1, 1>>]
ZeroFloats == [i \in Elems |-> <<0, 1>>]

InitFlex ==
    /\ flex_entry \in [scale : Scales, dtype : FlexDTypes]
    /\ flex_tensor = [i \in Elems |-> 0]
    /\ flexfill = NoFlexFill
    /\ flexrng = NoFlexRng
    /\ val = 0
    /\ out_float = ZeroFloats

IdleFlex ==
    /\ flex_entry = [scale |-> <<1, 1>>,
                     dtype |-> CHOOSE d \in FlexDTypes : d.bits = 16]
    /\ flex_tensor = [i \in Elems |-> 0]
    /\ flexfill = NoFlexFill
    /\ flexrng = NoFlexRng
    /\ val = 0
    /\ out_float = ZeroFloats

\* The scale controller recalibrates the entry's scale between graph runs.
FlexEntry_set_scale(s) ==
    /\ s # flex_entry.scale
    /\ flex_entry' = [flex_entry EXCEPT !.scale = s]
    /\ UNCHANGED <<flex_tensor, flexfill, flexrng, val, out_float, callVars>>

\* A constructor that would resolve the allocated tensor itself
\* (tensor.value.tensor) instead of leaving that to bind_buffers.
FlexFillKernel_init_resolving(value) ==
    /\ flexfill.phase = "absent"
    /\ IF allocated
       THEN /\ flexfill' = [flexfill EXCEPT !.phase = "bound", !.value = value]
            /\ Returned("FlexFillKernel.__init__")
       ELSE /\ Raised("FlexFillKernel.__init__", "AttributeError")
            /\ UNCHANGED flexfill
    /\ UNCHANGED <<flex_entry, flex_tensor, flexrng, val, out_float>>

\* FlexFillKernel.__init__: FillKernel.__init__ keeps value and the tensor
\* description, then the flex entry is taken from the description's device
\* tensor handle (tensor.value.flex_entry); the allocated array
\* (tensor.value.tensor) is not touched.  No scale, no maxabs yet.
FlexFillKernel_init(value) ==
    /\ flexfill.phase = "absent"
    /\ flexfill' = [flexfill EXCEPT !.phase = "constructed", !.value = value]
    /\ Returned("FlexFillKernel.__init__")
    /\ UNCHANGED <<flex_entry, flex_tensor, flexrng, val, out_float>>

\* FillKernel.bind_buffers (inherited), called once by the owning computation.
FlexFillKernel_bind_buffers ==
    /\ flexfill.phase = "constructed"
    /\ allocated
    /\ flexfill' = [flexfill EXCEPT !.phase = "bound"]
    /\ Returned("FlexFillKernel.bind_buffers")
    /\ UNCHANGED <<flex_entry, flex_tensor, flexrng, val, out_float>>

FlexFillKernel_bind_flex_scales ==
    /\ flexfill.phase # "absent"
    /\ flexfill' = [flexfill EXCEPT !.scale = flex_entry.scale,
                                    !.attrs = @ \cup {"scale"}]
    /\ Returned("FlexFillKernel.bind_flex_scales")
    /\ UNCHANGED <<flex_entry, flex_tensor, flexrng, val, out_float>>

\* val = int(self.value / self.scale)
FlexQuantize(value, scale) == Trunc(value[1] * scale[2], value[2] * scale[1])

\* What execute hands to tensor.fill for a quantized value v.
FlexFillStored_noclip(v, dtype) == v
FlexFillStored(v, dtype) ==
    IF v > dtype.pclip THEN dtype.pclip
    ELSE IF v < dtype.nclip THEN dtype.nclip
    ELSE v

\* What execute assigns to self.maxabs for a quantized value v.
FlexFillMaxabs_noabs(v, dtype) ==
    IF v > dtype.pclip THEN dtype.pclip
    ELSE IF v < dtype.nclip THEN dtype.nclip
    ELSE v
FlexFillMaxabs(v, dtype) ==
    IF v > dtype.pclip THEN dtype.pclip
    ELSE IF v < dtype.nclip THEN Abs(dtype.nclip)
    ELSE Abs(v)

\* An execute of a kernel whose scale would default to 1 at construction.
FlexFillKernel_execute_default_scale ==
    /\ flexfill.phase = "bound"
    /\ LET v == FlexQuantize(flexfill.value, flexfill.scale) IN
       /\ val' = v
       /\ flex_tensor' = Fill(flex_tensor, FlexFillStored(v, flex_entry.dtype))
       /\ flexfill' = [flexfill EXCEPT
                         !.maxabs = FlexFillMaxabs(v, flex_entry.dtype),
                         !.attrs = @ \cup {"maxabs"}]
       /\ Returned("FlexFillKernel.execute")
    /\ UNCHANGED <<flex_entry, flexrng, out_float>>

\* An execute that would read the entry's scale at each call.
FlexFillKernel_execute_entry_scale ==
    /\ flexfill.phase = "bound"
    /\ IF "scale" \notin flexfill.attrs
       THEN /\ Raised("FlexFillKernel.execute", "AttributeError")
            /\ UNCHANGED <<flex_tensor, flexfill, val>>
       ELSE LET v == FlexQuantize(flexfill.value, flex_entry.scale) IN
            /\ val' = v
            /\ flex_tensor' = Fill(flex_tensor, FlexFillStored(v, flex_entry.dtype))
            /\ flexfill' = [flexfill EXCEPT
                              !.maxabs = FlexFillMaxabs(v, flex_entry.dtype),
                              !.attrs = @ \cup {"maxabs"}]
            /\ Returned("FlexFillKernel.execute")
    /\ UNCHANGED <<flex_entry, flexrng, out_float>>

FlexFillKernel_execute ==
    /\ flexfill.phase = "bound"
    /\ IF "scale" \notin flexfill.attrs
       THEN \* self.scale does not exist: the first statement raises
            /\ Raised("FlexFillKernel.execute", "AttributeError")
            /\ UNCHANGED <<flex_tensor, flexfill, val>>
       ELSE LET v == FlexQuantize(flexfill.value, flexfill.scale) IN
            /\ val' = v
            /\ flex_tensor' = Fill(flex_tensor, FlexFillStored(v, flex_entry.dtype))
            /\ flexfill' = [flexfill EXCEPT
                              !.maxabs = FlexFillMaxabs(v, flex_entry.dtype),
                              !.attrs = @ \cup {"maxabs"}]
            /\ Returned("FlexFillKernel.execute")
    /\ UNCHANGED <<flex_entry, flexrng, out_float>>

-----------------------------------------------------------------------------
(* Flex layer: FlexRngFillKernel *)

FlexRngFillKernel_init(distribution, params) ==
    /\ flexrng.phase = "absent"
    /\ flexrng' = [flexrng EXCEPT !.phase = "constructed",
                                  !.distribution = distribution,
                                  !.params = params]
    /\ Returned("FlexRngFillKernel.__init__")
    /\ UNCHANGED <<flex_entry, flex_tensor, flexfill, val, out_float>>

\* RngFillKernel.bind_buffers (inherited), called once.
FlexRngFillKernel_bind_buffers ==
    /\ flexrng.phase = "constructed"
    /\ allocated
    /\ flexrng' = [flexrng EXCEPT !.phase = "bound"]
    /\ Returned("FlexRngFillKernel.bind_buffers")
    /\ UNCHANGED <<flex_entry, flex_tensor, flexfill, val, out_float>>

FlexRngFillKernel_bind_flex_scales ==
    /\ flexrng.phase # "absent"
    /\ flexrng' = [flexrng EXCEPT !.scale = flex_entry.scale,
                                  !.attrs = @ \cup {"scale"}]
    /\ Returned("FlexRngFillKernel.bind_flex_scales")
    /\ UNCHANGED <<flex_entry, flex_tensor, flexfill, val, out_float>>

\* The float handed to astype for a base sample r / RawDen:
\*   uniform: (raw * (high - low) + low) / scale
\*   normal:  (raw * params.scale + loc) / scale
FlexRngScaled(distribution, params, r, scale) ==
    IF distribution = "uniform"
    THEN <<(r * (params.high - params.low) + params.low * RawDen) * scale[2],
           RawDen * scale[1]>>
    ELSE <<(r * params.scale + params.loc * RawDen) * scale[2],
           RawDen * scale[1]>>

\* Two's complement wrap of an integer into the storage type.
Wrap(n, dtype) ==
    ((n + Pow2(dtype.bits - 1)) % Pow2(dtype.bits)) - Pow2(dtype.bits - 1)

\* ndarray.astype(self.out.dtype) from float to the integer storage type:
\* truncation toward zero when the value fits.  When it does not fit the C
\* cast is undefined; builds wrap, saturate, or give 0.
AsType(x, dtype) ==
    LET t == Trunc(x[1], x[2]) IN
    IF dtype.nclip <= t /\ t <= dtype.pclip
    THEN {t}
    ELSE {Wrap(t, dtype),
          IF t > dtype.pclip THEN dtype.pclip ELSE dtype.nclip,
          0}

FlexRngFillKernel_execute ==
    /\ flexrng.phase = "bound"
    /\ IF flexrng.distribution \notin {"uniform", "normal"}
       THEN \* neither branch is taken: nothing is sampled, nothing is stored
            /\ Returned("FlexRngFillKernel.execute")
            /\ UNCHANGED <<flex_tensor, out_float>>
       ELSE IF "scale" \notin flexrng.attrs
       THEN /\ Raised("FlexRngFillKernel.execute", "AttributeError")
            /\ UNCHANGED <<flex_tensor, out_float>>
       ELSE \E raw \in [Elems -> IF flexrng.distribution = "uniform"
                                 THEN UniformRaw ELSE FlexNormalRaw] :
            /\ out_float' = [i \in Elems |->
                               FlexRngScaled(flexrng.distribution, flexrng.params,
                                             raw[i], flexrng.scale)]
            /\ flex_tensor' \in
                 { t \in [Elems -> UNION { AsType(out_float'[i], flex_entry.dtype) :
                                             i \in Elems }] :
                     \A i \in Elems :
                         t[i] \in AsType(out_float'[i], flex_entry.dtype) }
            /\ Returned("FlexRngFillKernel.execute")
    /\ UNCHANGED <<flex_entry, flexfill, flexrng, val>>

NextFlexFill ==
    \/ \E s \in Scales : FlexEntry_set_scale(s)
    \/ \E value \in FillValues : FlexFillKernel_init(value)
    \/ FlexFillKernel_bind_buffers
    \/ FlexFillKernel_bind_flex_scales
    \/ FlexFillKernel_execute

\* The distribution tags execute has no branch for.
OtherTags == Distributions \ { "uniform", "normal" }

\* A FlexRngFillKernel built with such a tag.
NextFlexRngOther ==
    \/ \E d \in OtherTags, p \in RngParams : FlexRngFillKernel_init(d, p)
    \/ FlexRngFillKernel_bind_buffers
    \/ FlexRngFillKernel_bind_flex_scales
    \/ FlexRngFillKernel_execute

NextFlexRng ==
    \/ \E s \in Scales : FlexEntry_set_scale(s)
    \/ \E d \in Distributions, p \in RngParams : FlexRngFillKernel_init(d, p)
    \/ FlexRngFillKernel_bind_buffers
    \/ FlexRngFillKernel_bind_flex_scales
    \/ FlexRngFillKernel_execute

-----------------------------------------------------------------------------
(* RngFillKernel *)

NoRngFill == [phase |-> "absent", distribution |-> "uniform",
              params |-> CHOOSE p \in RngParams : p.low = 0]

InitRng ==
    /\ rngfill = NoRngFill
    /\ rng_out = [i \in Elems |-> 0]

\* __init__ keeps distribution, params and the descriptor; it checks nothing.
RngFillKernel_init(distribution, params) ==
    /\ rngfill.phase = "absent"
    /\ rngfill' = [phase |-> "constructed", distribution |-> distribution,
                   params |-> params]
    /\ Returned("RngFillKernel.__init__")
    /\ UNCHANGED rng_out

RngFillKernel_bind_buffers ==
    /\ rngfill.phase = "constructed"
    /\ rngfill' = [rngfill EXCEPT !.phase = "bound"]
    /\ Returned("RngFillKernel.bind_buffers")
    /\ UNCHANGED rng_out

\* The element stored for a base sample r / RawDen, as a numerator over RawDen:
\*   uniform: raw * (high - low) + low      normal: raw * scale + loc
RngAffine(distribution, params, r) ==
    IF distribution = "uniform"
    THEN r * (params.high - params.low) + params.low * RawDen
    ELSE r * params.scale + params.loc * RawDen

\* An execute whose second branch would take every tag but 'uniform'.
RngFillKernel_execute_else_normal ==
    /\ rngfill.phase = "bound"
    /\ \E raw \in [Elems -> IF rngfill.distribution = "uniform"
                            THEN UniformRaw ELSE NormalRaw] :
         rng_out' = [i \in Elems |->
                       RngAffine(rngfill.distribution, rngfill.params, raw[i])]
    /\ Returned("RngFillKernel.execute")
    /\ UNCHANGED rngfill

RngFillKernel_execute ==
    /\ rngfill.phase = "bound"
    /\ IF rngfill.distribution \in {"uniform", "normal"}
       THEN \E raw \in [Elems -> IF rngfill.distribution = "uniform"
                                 THEN UniformRaw ELSE NormalRaw] :
              rng_out' = [i \in Elems |->
                            RngAffine(rngfill.distribution, rngfill.params, raw[i])]
       ELSE \* no branch for any other tag: the call does nothing
            UNCHANGED rng_out
    /\ Returned("RngFillKernel.execute")
    /\ UNCHANGED rngfill

NextRng ==
    \/ \E d \in Distributions, p \in RngParams : RngFillKernel_init(d, p)
    \/ RngFillKernel_bind_buffers
    \/ RngFillKernel_execute

\* A RngFillKernel built with such a tag.
NextRngOther ==
    \/ \E d \in OtherTags, p \in RngParams : RngFillKernel_init(d, p)
    \/ RngFillKernel_bind_buffers
    \/ RngFillKernel_execute

-----------------------------------------------------------------------------
(* Send / Recv over a shared queue *)

Pairs == {1, 2}      \* Send/Recv pairs; pair p is created on channel p
Chans == {1, 2}

\* Shapes of the transferred tensor: () and (NElems,).
ChanShapes == { <<>>, <<NElems>> }
Size(shape) == IF shape = <<>> THEN 1 ELSE shape[1]
Zeros(shape) == [i \in 1 .. Size(shape) |-> 0]

\* Contents the sending endpoint computes into pair p's source tensor.
SrcData(p, shape) ==
    { [i \in 1 .. Size(shape) |-> 10 * p + i],
      [i \in 1 .. Size(shape) |-> 10 * p + 9] }

InitChan ==
    /\ shared_q = [c \in Chans |-> <<>>]
    /\ \E sh \in [Pairs -> ChanShapes] :
         /\ send = [p \in Pairs |->
                      [phase |-> "absent", op_shared_q |-> p, q |-> p,
                       shape |-> sh[p], data |-> Zeros(sh[p]),
                       value |-> Zeros(sh[p]), pc |-> "idle"]]
         /\ recv = [p \in Pairs |->
                      [phase |-> "absent", op_shared_q |-> p, q |-> p,
                       shape |-> sh[p], data |-> Zeros(sh[p]),
                       x |-> Zeros(sh[p]), pc |-> "idle"]]
    /\ put_log = [p \in Pairs |-> <<>>]
    /\ get_log = [p \in Pairs |-> <<>>]

IdleChan ==
    /\ shared_q = [c \in Chans |-> <<>>]
    /\ send = [p \in Pairs |->
                 [phase |-> "absent", op_shared_q |-> p, q |-> p,
                  shape |-> <<>>, data |-> Zeros(<<>>),
                  value |-> Zeros(<<>>), pc |-> "idle"]]
    /\ recv = [p \in Pairs |->
                 [phase |-> "absent", op_shared_q |-> p, q |-> p,
                  shape |-> <<>>, data |-> Zeros(<<>>),
                  x |-> Zeros(<<>>), pc |-> "idle"]]
    /\ put_log = [p \in Pairs |-> <<>>]
    /\ get_log = [p \in Pairs |-> <<>>]

RECURSIVE SumLen(_, _)
SumLen(f, S) ==
    IF S = {} THEN 0
    ELSE LET p == CHOOSE x \in S : TRUE IN Len(f[p]) + SumLen(f, S \ {p})

\* Another kernel of the sending endpoint writes the source tensor; the
\* endpoint's single thread does so only between two of its Sends.
Upstream_write(p, a) ==
    /\ send[p].pc = "idle"
    /\ a # send[p].data
    /\ send' = [send EXCEPT ![p].data = a]
    /\ UNCHANGED <<shared_q, recv, put_log, get_log>>

\* SendKernel.__init__: self.q = send_op.shared_q
SendKernel_init_one_queue(p) ==
    /\ send[p].phase = "absent"
    /\ send' = [send EXCEPT ![p].phase = "constructed",
                            ![p].q = CHOOSE c \in Chans : \A d \in Chans : c <= d]
    /\ UNCHANGED <<shared_q, recv, put_log, get_log>>
SendKernel_init(p) ==
    /\ send[p].phase = "absent"
    /\ send' = [send EXCEPT ![p].phase = "constructed",
                            ![p].q = send[p].op_shared_q]
    /\ UNCHANGED <<shared_q, recv, put_log, get_log>>

\* bind_buffers: the descriptor is replaced by the allocated tensor.
SendKernel_bind_buffers(p) ==
    /\ send[p].phase = "constructed"
    /\ send' = [send EXCEPT ![p].phase = "bound"]
    /\ UNCHANGED <<shared_q, recv, put_log, get_log>>

\* execute, first statement: value = self.tensor.get(None), a host snapshot.
SendKernel_execute_get(p) ==
    /\ send[p].phase = "bound"
    /\ send[p].pc = "idle"
    /\ SumLen(put_log, Pairs) + Cardinality({r \in Pairs : send[r].pc = "put"})
         < MaxSends
    /\ send' = [send EXCEPT ![p].value = send[p].data, ![p].pc = "put"]
    /\ UNCHANGED <<shared_q, recv, put_log, get_log>>

\* execute, second statement: self.q.put(value); waits while the queue is full.
SendKernel_execute_put_twice(p) ==
    /\ send[p].pc = "put"
    /\ Len(shared_q[send[p].q]) < MaxQueue
    /\ shared_q' = [shared_q EXCEPT ![send[p].q] = @ \o <<send[p].value, send[p].value>>]
    /\ put_log' = [put_log EXCEPT ![p] = Append(@, send[p].value)]
    /\ send' = [send EXCEPT ![p].pc = "idle"]
    /\ UNCHANGED <<recv, get_log>>
SendKernel_execute_put(p) ==
    /\ send[p].pc = "put"
    /\ Len(shared_q[send[p].q]) < MaxQueue
    /\ shared_q' = [shared_q EXCEPT ![send[p].q] = Append(@, send[p].value)]
    /\ put_log' = [put_log EXCEPT ![p] = Append(@, send[p].value)]
    /\ send' = [send EXCEPT ![p].pc = "idle"]
    /\ UNCHANGED <<recv, get_log>>

RecvKernel_init(p) ==
    /\ recv[p].phase = "absent"
    /\ recv' = [recv EXCEPT ![p].phase = "constructed"]
    /\ UNCHANGED <<shared_q, send, put_log, get_log>>

RecvKernel_bind_buffers(p) ==
    /\ recv[p].phase = "constructed"
    /\ recv' = [recv EXCEPT ![p].phase = "bound"]
    /\ UNCHANGED <<shared_q, send, put_log, get_log>>

\* The partitioning logic gives an op another channel: op.shared_q = c.
SendOp_set_shared_q(p, c) ==
    /\ c # send[p].op_shared_q
    /\ send' = [send EXCEPT ![p].op_shared_q = c]
    /\ UNCHANGED <<shared_q, recv, put_log, get_log>>
RecvOp_set_shared_q(p, c) ==
    /\ c # recv[p].op_shared_q
    /\ recv' = [recv EXCEPT ![p].op_shared_q = c]
    /\ UNCHANGED <<shared_q, send, put_log, get_log>>

\* An execute that would get from the channel the kernel started with.
RecvKernel_execute_call_captured(p) ==
    /\ recv[p].phase = "bound"
    /\ recv[p].pc = "idle"
    /\ recv' = [recv EXCEPT ![p].pc = "get"]
    /\ UNCHANGED <<shared_q, send, put_log, get_log>>

\* execute, first statement: q = self.recv_op.shared_q, the channel the op
\* refers to at this call.
RecvKernel_execute_call(p) ==
    /\ recv[p].phase = "bound"
    /\ recv[p].pc = "idle"
    /\ recv' = [recv EXCEPT ![p].q = recv[p].op_shared_q, ![p].pc = "get"]
    /\ UNCHANGED <<shared_q, send, put_log, get_log>>

\* A get that would not wait: on an empty queue it hands back zeros.
RecvKernel_execute_get_nowait(p) ==
    /\ recv[p].pc = "get"
    /\ IF shared_q[recv[p].q] # <<>>
       THEN /\ recv' = [recv EXCEPT ![p].x = Head(shared_q[recv[p].q]),
                                    ![p].pc = "write"]
            /\ shared_q' = [shared_q EXCEPT ![recv[p].q] = Tail(@)]
            /\ get_log' = [get_log EXCEPT
                              ![p] = Append(@, Head(shared_q[recv[p].q]))]
       ELSE /\ recv' = [recv EXCEPT ![p].x = Zeros(recv[p].shape),
                                    ![p].pc = "write"]
            /\ UNCHANGED <<shared_q, get_log>>
    /\ UNCHANGED <<send, put_log>>

\* execute, second statement: x = q.get(), which waits until the queue holds
\* a value and removes the oldest one.
RecvKernel_execute_get(p) ==
    /\ recv[p].pc = "get"
    /\ shared_q[recv[p].q] # <<>>
    /\ recv' = [recv EXCEPT ![p].x = Head(shared_q[recv[p].q]),
                            ![p].pc = "write"]
    /\ shared_q' = [shared_q EXCEPT ![recv[p].q] = Tail(@)]
    /\ get_log' = [get_log EXCEPT ![p] = Append(@, Head(shared_q[recv[p].q]))]
    /\ UNCHANGED <<send, put_log>>

\* What execute leaves in a destination of the given shape holding data:
\* shape () -> tensor.tensor.fill(x), otherwise tensor.__setitem__(None, x).
RecvStore_fill_always(shape, data, x) == Fill(data, x[1])
RecvStore(shape, data, x) ==
    IF shape = <<>>
    THEN Fill(data, x[1])
    ELSE [i \in DOMAIN data |-> IF Len(x) = 1 THEN x[1] ELSE x[i]]

RecvKernel_execute_write(p) ==
    /\ recv[p].pc = "write"
    /\ recv' = [recv EXCEPT
                  ![p].data = RecvStore(recv[p].shape, recv[p].data, recv[p].x),
                  ![p].pc = "idle"]
    /\ UNCHANGED <<shared_q, send, put_log, get_log>>

NextChan ==
    \E p \in Pairs :
        \/ \E a \in SrcData(p, send[p].shape) : Upstream_write(p, a)
        \/ SendKernel_init(p)
        \/ SendKernel_bind_buffers(p)
        \/ SendKernel_execute_get(p)
        \/ SendKernel_execute_put(p)
        \/ RecvKernel_init(p)
        \/ RecvKernel_bind_buffers(p)
        \/ RecvKernel_execute_call(p)
        \/ RecvKernel_execute_get(p)
        \/ RecvKernel_execute_write(p)

\* The kernels next to partitioning logic that re-assigns the ops' channels.
\* Every pair's source tensor keeps contents of its own.
InitRewire ==
    /\ shared_q = [c \in Chans |-> <<>>]
    /\ \E sh \in ChanShapes :
         /\ send = [p \in Pairs |->
                      [phase |-> "absent", op_shared_q |-> p, q |-> p,
                       shape |-> sh,
                       data |-> [i \in 1 .. Size(sh) |-> 10 * p + i],
                       value |-> Zeros(sh), pc |-> "idle"]]
         /\ recv = [p \in Pairs |->
                      [phase |-> "absent", op_shared_q |-> p, q |-> p,
                       shape |-> sh, data |-> Zeros(sh),
                       x |-> Zeros(sh), pc |-> "idle"]]
    /\ put_log = [p \in Pairs |-> <<>>]
    /\ get_log = [p \in Pairs |-> <<>>]

NextRewire ==
    \E p \in Pairs :
        \/ \E c \in Chans : SendOp_set_shared_q(p, c)
        \/ \E c \in Chans : RecvOp_set_shared_q(p, c)
        \/ SendKernel_init(p)
        \/ SendKernel_bind_buffers(p)
        \/ SendKernel_execute_get(p)
        \/ SendKernel_execute_put(p)
        \/ RecvKernel_init(p)
        \/ RecvKernel_bind_buffers(p)
        \/ RecvKernel_execute_call(p)
        \/ RecvKernel_execute_get(p)
        \/ RecvKernel_execute_write(p)

-----------------------------------------------------------------------------
(* Dimshuffle kernel generation *)

\* An entry of a parameter list: an unresolved tensor descriptor (v is the
\* descriptor's identity), a device pointer, or a plain argument.
TDEntry(id)  == [kind |-> "td",  v |-> id]
ArgEntry(n)  == [kind |-> "arg", v |-> n]
Entries(seq) == [i \in DOMAIN seq |-> ArgEntry(seq[i])]

\* The device address the allocator gave the tensor of descriptor id.
Addr(id) == 4096 * id

\* pointer_from_td(td)
pointer_from_td(e) == [kind |-> "ptr", v |-> Addr(e.v)]

\* TensorDescriptionWrapper(td, max_dims): the descriptor with shape and
\* strides padded with unit dimensions up to max_dims.
RECURSIVE PadOnes(_, _)
PadOnes(seq, n) == IF Len(seq) >= n THEN seq ELSE PadOnes(Append(seq, 1), n)
TensorDescriptionWrapper(td, max_dims) ==
    [td |-> td.id, dtype |-> td.dtype,
     shape |-> PadOnes(td.shape, max_dims),
     strides |-> PadOnes(td.strides, max_dims)]

\* _get_copy_transpose_kernel(dtype, shape, axes): the compiled handle; its
\* kernel-specific arguments are the dimensions it was compiled for.
NoKernel == [exists |-> FALSE, dtype |-> "", shape |-> <<>>, axes |-> <<>>,
             args |-> <<>>]
get_copy_transpose_kernel(dtype, shape, axes) ==
    [exists |-> TRUE, dtype |-> dtype, shape |-> shape, axes |-> axes,
     args |-> shape]

\* A parameter list with the two stride lists the other way round.
get_dimshuffle_dst_strides_first(dtype, shape, axes, src, dst) ==
    LET kernel == get_copy_transpose_kernel(dtype, shape, axes) IN
    [kernel |-> kernel,
     params |-> <<TDEntry(dst.td), TDEntry(src.td)>> \o Entries(kernel.args)
                  \o Entries(dst.strides) \o Entries(src.strides)]

\* params = [dst.td, src.td] + list(kernel.args)
\*          + list(src.strides) + list(dst.strides)
get_dimshuffle(dtype, shape, axes, src, dst) ==
    LET kernel == get_copy_transpose_kernel(dtype, shape, axes) IN
    [kernel |-> kernel,
     params |-> <<TDEntry(dst.td), TDEntry(src.td)>> \o Entries(kernel.args)
                  \o Entries(src.strides) \o Entries(dst.strides)]

\* isinstance(self.params[index], TensorDescription)
IsTensorDescription_or_pointer(e) == e.kind \in {"td", "ptr"}
IsTensorDescription(e) == e.kind = "td"

\* The loop of bind_buffers over self.params.
BindParams(params) ==
    [i \in DOMAIN params |->
       IF IsTensorDescription(params[i]) THEN pointer_from_td(params[i])
       ELSE params[i]]
\* The pointer_from_td calls that loop makes, added to the counts so far.
CountCalls(counts, params) ==
    [i \in DOMAIN params |->
       counts[i] + (IF IsTensorDescription(params[i]) THEN 1 ELSE 0)]

-----------------------------------------------------------------------------
(* DimShuffleKernel *)

\* DimShuffle ops of the graph: output and input descriptors, and the old
\* position of every new axis.
DimShuffleOps ==
    { [out |-> [id |-> 3, dtype |-> "float32", shape |-> <<3, 2>>, strides |-> <<2, 1>>],
       arg |-> [id |-> 4, dtype |-> "float32", shape |-> <<2, 3>>, strides |-> <<3, 1>>],
       old_axis_positions |-> <<1, 0>>],
      [out |-> [id |-> 3, dtype |-> "float32", shape |-> <<2>>, strides |-> <<1>>],
       arg |-> [id |-> 4, dtype |-> "float32", shape |-> <<2>>, strides |-> <<-1>>],
       old_axis_positions |-> <<0>>] }

DimShuffleKernel_init ==
    /\ dimshuffle.phase = "absent"
    /\ LET out == TensorDescriptionWrapper(dimshuffle.op.out, 2)
           in_tensor == TensorDescriptionWrapper(dimshuffle.op.arg, 2)
           g == get_dimshuffle(out.dtype, in_tensor.shape,
                               dimshuffle.op.old_axis_positions, in_tensor, out)
       IN /\ dimshuffle' = [dimshuffle EXCEPT !.phase = "constructed",
                                              !.kernel = g.kernel,
                                              !.params = g.params]
          /\ ptr_calls' = [ptr_calls EXCEPT !.ds = [i \in DOMAIN g.params |-> 0]]
    /\ UNCHANGED <<setitem, dest, binds, calls>>

DimShuffleKernel_bind_buffers ==
    /\ dimshuffle.phase \in {"constructed", "bound"}
    /\ binds.ds < MaxBinds
    /\ binds' = [binds EXCEPT !.ds = @ + 1]
    /\ dimshuffle' = [dimshuffle EXCEPT !.phase = "bound",
                                        !.params = BindParams(dimshuffle.params)]
    /\ ptr_calls' = [ptr_calls EXCEPT !.ds = CountCalls(@, dimshuffle.params)]
    /\ UNCHANGED <<setitem, dest, calls>>

LaunchCall(kernel, params) ==
    [fn |-> "prepared_async_call", kernel |-> kernel, params |-> params]

\* An execute that would use its parameter list up.
DimShuffleKernel_execute_consuming ==
    /\ dimshuffle.phase = "bound"
    /\ Len(calls.ds) < MaxCalls
    /\ calls' = [calls EXCEPT
                   !.ds = Append(@, LaunchCall(dimshuffle.kernel, dimshuffle.params))]
    /\ dimshuffle' = [dimshuffle EXCEPT !.params = <<>>]
    /\ UNCHANGED <<setitem, dest, ptr_calls, binds>>

\* execute: self.kernel.prepared_async_call(grid, block, None, *self.params)
DimShuffleKernel_execute ==
    /\ dimshuffle.phase = "bound"
    /\ Len(calls.ds) < MaxCalls
    /\ calls' = [calls EXCEPT
                   !.ds = Append(@, LaunchCall(dimshuffle.kernel, dimshuffle.params))]
    /\ UNCHANGED <<dimshuffle, setitem, dest, ptr_calls, binds>>

-----------------------------------------------------------------------------
(* SetItemKernel *)

RECURSIVE Prod(_)
Prod(shape) == IF shape = <<>> THEN 1 ELSE Head(shape) * Prod(Tail(shape))

RECURSIVE SeqMin(_)
SeqMin(seq) ==
    IF Len(seq) = 1 THEN seq[1]
    ELSE LET m == SeqMin(Tail(seq)) IN IF seq[1] < m THEN seq[1] ELSE m

\* Strides of a densely packed tensor of the given shape (rank <= 2).
Contiguous(shape) ==
    IF Len(shape) = 0 THEN <<>>
    ELSE IF Len(shape) = 1 THEN <<1>> ELSE <<shape[2], 1>>

\* Destination layouts: scalar, dense, reversed and transposed views.
DestLayouts ==
    { [shape |-> <<>>,     strides |-> <<>>],
      [shape |-> <<2>>,    strides |-> <<1>>],
      [shape |-> <<2>>,    strides |-> <<-1>>],
      [shape |-> <<2, 2>>, strides |-> <<2, 1>>],
      [shape |-> <<2, 2>>, strides |-> <<-2, 1>>],
      [shape |-> <<2, 2>>, strides |-> <<2, -1>>] }

\* op.item: None, or a slice lo:hi of the first axis.
NoneItem == [none |-> TRUE, lo |-> 0, hi |-> 0]
Items == { NoneItem, [none |-> FALSE, lo |-> 0, hi |-> 1],
           [none |-> FALSE, lo |-> 0, hi |-> 2] }

\* Shape of what item selects from a destination of the given shape.
Selected(shape, item) ==
    IF shape = <<>> \/ item.none THEN shape
    ELSE <<item.hi - item.lo>> \o Tail(shape)

\* SetItem ops of the graph: destination, source value and item.  The source
\* is a scalar or has the shape of the selection.
SetItemOp(l, it, vs) ==
    [tensor |-> [id |-> 1, dtype |-> "float32", shape |-> l.shape,
                 strides |-> l.strides],
     value |-> [id |-> 2, dtype |-> "float32", shape |-> vs,
                strides |-> Contiguous(vs),
                data |-> [i \in 1 .. Prod(vs) |-> 20 + i]],
     item |-> it]
SetItemOps ==
    UNION { { SetItemOp(l, it, vs) : vs \in {<<>>, Selected(l.shape, it)} } :
            l \in DestLayouts, it \in Items }

\* The test of __init__ that selects the copy transpose kernel.
UseFallback_any_item(strides, item) ==
    Len(strides) > 0 /\ SeqMin(strides) < 0
UseFallback(strides, item) ==
    Len(strides) > 0 /\ SeqMin(strides) < 0 /\ item.none

\* range(len(shape))
Range(n) == [i \in 1 .. n |-> i - 1]

SetItemKernel_init ==
    /\ setitem.phase = "absent"
    /\ LET tensor == setitem.op.tensor
           value == setitem.op.value
       IN IF UseFallback(tensor.strides, setitem.op.item)
          THEN LET g == get_dimshuffle(tensor.dtype, tensor.shape,
                                       Range(Len(tensor.shape)),
                                       TensorDescriptionWrapper(value, 1),
                                       TensorDescriptionWrapper(tensor, 1))
               IN /\ setitem' = [setitem EXCEPT !.phase = "constructed",
                                                !.item = setitem.op.item,
                                                !.kernel = g.kernel,
                                                !.params = g.params]
                  /\ ptr_calls' = [ptr_calls EXCEPT
                                     !.si = [i \in DOMAIN g.params |-> 0]]
          ELSE /\ setitem' = [setitem EXCEPT !.phase = "constructed",
                                             !.item = setitem.op.item,
                                             !.kernel = NoKernel]
               /\ UNCHANGED ptr_calls
    /\ UNCHANGED <<dimshuffle, dest, binds, calls>>

SetItemKernel_bind_buffers ==
    /\ setitem.phase \in {"constructed", "bound"}
    /\ binds.si < MaxBinds
    /\ binds' = [binds EXCEPT !.si = @ + 1]
    /\ IF setitem.kernel.exists
       THEN /\ setitem' = [setitem EXCEPT !.phase = "bound",
                                          !.params = BindParams(setitem.params)]
            /\ ptr_calls' = [ptr_calls EXCEPT !.si = CountCalls(@, setitem.params)]
       ELSE /\ setitem' = [setitem EXCEPT !.phase = "bound"]
            /\ UNCHANGED ptr_calls
    /\ UNCHANGED <<dimshuffle, dest, calls>>

\* The branch execute takes.
SetItemBranch_no_fallback(kernel, shape) ==
    IF shape = <<>> THEN "fill" ELSE "__setitem__"
SetItemBranch(kernel, shape) ==
    IF kernel.exists THEN "prepared_async_call"
    ELSE IF shape = <<>> THEN "fill"
    ELSE "__setitem__"

\* value broadcast to n elements.
Broadcast(value, n) == [i \in 1 .. n |-> IF Len(value) = 1 THEN value[1] ELSE value[i]]

\* tensor.__setitem__(item, value) on the logical (row-major) contents.
SetItemAssign(shape, data, item, value) ==
    IF item.none THEN Broadcast(value, Len(data))
    ELSE LET row == Prod(Tail(shape))
             lo  == item.lo * row
             hi  == item.hi * row
             v   == Broadcast(value, hi - lo)
         IN [i \in DOMAIN data |-> IF lo < i /\ i <= hi THEN v[i - lo] ELSE data[i]]

SetItemKernel_execute ==
    /\ setitem.phase = "bound"
    /\ Len(calls.si) < MaxCalls
    /\ LET branch == SetItemBranch(setitem.kernel, setitem.op.tensor.shape)
           value  == setitem.op.value.data
       IN /\ calls' = [calls EXCEPT !.si = Append(@,
                         [fn |-> branch,
                          kernel |-> IF branch = "prepared_async_call"
                                     THEN setitem.kernel ELSE NoKernel,
                          params |-> IF branch = "prepared_async_call"
                                     THEN setitem.params ELSE <<>>,
                          item |-> IF branch = "__setitem__"
                                   THEN setitem.item ELSE NoneItem])]
          /\ dest' = IF branch = "prepared_async_call"
                     THEN Broadcast(value, Len(dest))
                     ELSE IF branch = "fill"
                     THEN Fill(dest, value[1])
                     ELSE SetItemAssign(setitem.op.tensor.shape, dest,
                                        setitem.item, value)
    /\ UNCHANGED <<dimshuffle, setitem, ptr_calls, binds>>

InitItem ==
    /\ \E op \in DimShuffleOps :
         dimshuffle = [phase |-> "absent", op |-> op, kernel |-> NoKernel,
                       params |-> <<>>]
    /\ \E op \in SetItemOps :
         /\ setitem = [phase |-> "absent", op |-> op, item |-> NoneItem,
                       kernel |-> NoKernel, params |-> <<>>]
         /\ dest = [i \in 1 .. Prod(op.tensor.shape) |-> 0]
    /\ ptr_calls = [ds |-> <<>>, si |-> <<>>]
    /\ binds = [ds |-> 0, si |-> 0]
    /\ calls = [ds |-> <<>>, si |-> <<>>]

IdleItem ==
    /\ dimshuffle = [phase |-> "absent",
                     op |-> CHOOSE op \in DimShuffleOps : Len(op.out.shape) = 1,
                     kernel |-> NoKernel, params |-> <<>>]
    /\ setitem = [phase |-> "absent",
                  op |-> CHOOSE op \in SetItemOps :
                           op.tensor.shape = <<>> /\ op.item.none,
                  item |-> NoneItem, kernel |-> NoKernel, params |-> <<>>]
    /\ dest = <<0>>
    /\ ptr_calls = [ds |-> <<>>, si |-> <<>>]
    /\ binds = [ds |-> 0, si |-> 0]
    /\ calls = [ds |-> <<>>, si |-> <<>>]

NextItem ==
    \/ DimShuffleKernel_init
    \/ DimShuffleKernel_bind_buffers
    \/ DimShuffleKernel_execute
    \/ SetItemKernel_init
    \/ SetItemKernel_bind_buffers
    \/ SetItemKernel_execute

-----------------------------------------------------------------------------
(* FillKernel and the allocation of device memory *)

FillScalars == { -2, 0, 1, 3, 7 }

\* Destinations: a scalar-shaped and a flat tensor, with earlier contents.
FillTensors ==
    UNION { { [shape |-> sh, data |-> d] : d \in [1 .. Size(sh) -> {0, 7}] } :
            sh \in ChanShapes }

NoFill == [phase |-> "absent", value |-> 0]

InitFill ==
    /\ allocated = FALSE
    /\ fillkernel = NoFill
    /\ fill_tensor \in FillTensors

IdleFill ==
    /\ allocated = TRUE
    /\ fillkernel = NoFill
    /\ fill_tensor = [shape |-> <<>>, data |-> Zeros(<<>>)]

\* A tensor description's value is its device tensor handle: it exists (and
\* carries the flex entry) from graph compilation on, and its array
\* (value.tensor) exists once the transformer has allocated device memory.
Allocate ==
    /\ ~allocated
    /\ allocated' = TRUE
    /\ UNCHANGED <<fillkernel, fill_tensor, flexVars, callVars>>

\* FillKernel.__init__ keeps the value and the tensor description.
FillKernel_init(value) ==
    /\ fillkernel.phase = "absent"
    /\ fillkernel' = [phase |-> "constructed", value |-> value]
    /\ Returned("FillKernel.__init__")
    /\ UNCHANGED <<allocated, fill_tensor>>

\* bind_buffers: self.tensor = self.tensor.value.tensor, the allocated array.
FillKernel_bind_buffers ==
    /\ fillkernel.phase = "constructed"
    /\ allocated
    /\ fillkernel' = [fillkernel EXCEPT !.phase = "bound"]
    /\ Returned("FillKernel.bind_buffers")
    /\ UNCHANGED <<allocated, fill_tensor>>

\* An execute that would fill scalar-shaped destinations only.
FillKernel_execute_scalar_only ==
    /\ fillkernel.phase = "bound"
    /\ fill_tensor' =
          IF fill_tensor.shape = <<>>
          THEN [fill_tensor EXCEPT !.data = Fill(@, fillkernel.value)]
          ELSE fill_tensor
    /\ Returned("FillKernel.execute")
    /\ UNCHANGED <<allocated, fillkernel>>

\* execute: self.tensor.fill(self.value), whatever the shape.
FillKernel_execute ==
    /\ fillkernel.phase = "bound"
    /\ fill_tensor' = [fill_tensor EXCEPT !.data = Fill(@, fillkernel.value)]
    /\ Returned("FillKernel.execute")
    /\ UNCHANGED <<allocated, fillkernel>>

NextFill ==
    \/ Allocate
    \/ \E v \in FillScalars : FillKernel_init(v)
    \/ FillKernel_bind_buffers
    \/ FillKernel_execute

\* Graph compilation, then allocation, then binding: the constructors and
\* bind_buffers of the fill kernels around the allocation of device memory.
NextConstruct ==
    \/ Allocate
    \/ \E v \in FillScalars : FillKernel_init(v) /\ UNCHANGED flexVars
    \/ FillKernel_bind_buffers /\ UNCHANGED flexVars
    \/ \E v \in FillValues : FlexFillKernel_init(v) /\ UNCHANGED fillVars
    \/ FlexFillKernel_bind_buffers /\ UNCHANGED fillVars
    \/ \E d \in Distributions, p \in RngParams :
          FlexRngFillKernel_init(d, p) /\ UNCHANGED fillVars
    \/ FlexRngFillKernel_bind_buffers /\ UNCHANGED fillVars

-----------------------------------------------------------------------------
(* Specifications: one per family of kernels; the others stay idle *)

InitCalls == last_call = "" /\ raised = ""

SpecFlexInit ==
    InitFlex /\ InitRng /\ IdleChan /\ IdleItem /\ IdleFill /\ InitCalls
SpecFlexFillNext ==
    NextFlexFill /\ UNCHANGED <<rngVars, chanVars, itemVars, fillVars>>
SpecFlexFill == SpecFlexInit /\ [][SpecFlexFillNext]_vars

SpecFlexRngNext ==
    NextFlexRng /\ UNCHANGED <<rngVars, chanVars, itemVars, fillVars>>
SpecFlexRng == SpecFlexInit /\ [][SpecFlexRngNext]_vars

SpecFillInit ==
    IdleFlex /\ InitRng /\ IdleChan /\ IdleItem /\ InitFill /\ InitCalls
SpecFillNext ==
    (NextFill /\ UNCHANGED flexVars) /\ UNCHANGED <<rngVars, chanVars, itemVars>>
SpecFill == SpecFillInit /\ [][SpecFillNext]_vars

SpecConstructInit ==
    InitFlex /\ InitRng /\ IdleChan /\ IdleItem /\ InitFill /\ InitCalls
SpecConstructNext ==
    NextConstruct /\ UNCHANGED <<rngVars, chanVars, itemVars>>
SpecConstruct == SpecConstructInit /\ [][SpecConstructNext]_vars

\* Both flex kernels on one flex tensor, next to the scale controller.
SpecFlexScaleNext ==
    (NextFlexFill \/ NextFlexRngOther)
        /\ UNCHANGED <<rngVars, chanVars, itemVars, fillVars>>
SpecFlexScale == SpecFlexInit /\ [][SpecFlexScaleNext]_vars

SpecRngInit ==
    IdleFlex /\ InitRng /\ IdleChan /\ IdleItem /\ IdleFill /\ InitCalls
SpecRngNext == NextRng /\ UNCHANGED <<flexVars, chanVars, itemVars, fillVars>>
SpecRng == SpecRngInit /\ [][SpecRngNext]_vars

\* A RngFillKernel and a FlexRngFillKernel whose tags execute has no branch
\* for.
SpecTagsInit ==
    InitFlex /\ InitRng /\ IdleChan /\ IdleItem /\ IdleFill /\ InitCalls
SpecTagsNext ==
    /\ \/ NextRngOther /\ UNCHANGED flexVars
       \/ NextFlexRngOther /\ UNCHANGED rngVars
    /\ UNCHANGED <<chanVars, itemVars, fillVars>>
SpecTags == SpecTagsInit /\ [][SpecTagsNext]_vars

SpecChanInit ==
    IdleFlex /\ InitRng /\ InitChan /\ IdleItem /\ IdleFill /\ InitCalls
SpecChanNext ==
    NextChan /\ UNCHANGED <<flexVars, rngVars, itemVars, fillVars, callVars>>
SpecChan == SpecChanInit /\ [][SpecChanNext]_vars

\* Ops that can be given each other's channel carry tensors of one shape.
SpecRewireInit ==
    IdleFlex /\ InitRng /\ InitRewire /\ IdleItem /\ IdleFill /\ InitCalls
SpecRewireNext ==
    NextRewire /\ UNCHANGED <<flexVars, rngVars, itemVars, fillVars, callVars>>
SpecRewire == SpecRewireInit /\ [][SpecRewireNext]_vars

SpecItemInit ==
    IdleFlex /\ InitRng /\ IdleChan /\ InitItem /\ IdleFill /\ InitCalls
SpecItemNext ==
    NextItem /\ UNCHANGED <<flexVars, rngVars, chanVars, fillVars, callVars>>
SpecItem == SpecItemInit /\ [][SpecItemNext]_vars

-----------------------------------------------------------------------------
(* Properties of the flex layer *)

FlexFillDone == last_call = "FlexFillKernel.execute" /\ raised = ""

\* value / scale >= k and value / scale <= k, for the kernel's value and scale
ScaledAtLeast(k) ==
    flexfill.value[1] * flexfill.scale[2] >= k * flexfill.value[2] * flexfill.scale[1]
ScaledAtMost(k) ==
    flexfill.value[1] * flexfill.scale[2] <= k * flexfill.value[2] * flexfill.scale[1]

\* C1: when FlexFillKernel.execute has run with int(value / scale) above pclip,
\* every element of the tensor is exactly pclip and maxabs is pclip; with
\* int(value / scale) below nclip every element is exactly nclip and maxabs is
\* the magnitude of nclip.
C1_OverflowStoresClip ==
    FlexFillDone =>
        /\ ScaledAtLeast(flex_entry.dtype.pclip + 1) =>
              /\ \A i \in Elems : flex_tensor[i] = flex_entry.dtype.pclip
              /\ flexfill.maxabs = flex_entry.dtype.pclip
        /\ ScaledAtMost(flex_entry.dtype.nclip - 1) =>
              /\ \A i \in Elems : flex_tensor[i] = flex_entry.dtype.nclip
              /\ flexfill.maxabs = Abs(flex_entry.dtype.nclip)

\* FlexFill(value=300, pclip=127) at scale 1: stored 127, maxabs 127.
C1_Witness ==
    /\ FlexFillDone
    /\ flexfill.value = <<300, 1>> /\ flexfill.scale = <<1, 1>>
    /\ flex_entry.dtype.pclip = 127
    /\ \A i \in Elems : flex_tensor[i] = 127
    /\ flexfill.maxabs = 127

FlexRngDone ==
    /\ last_call = "FlexRngFillKernel.execute" /\ raised = ""
    /\ flexrng.distribution \in {"uniform", "normal"}

\* C2: every stored quantized element lies within [nclip, pclip], and what a
\* flex kernel stores for a value outside these bounds is the bound it crossed.
C2_StoredWithinClipBounds ==
    /\ \A i \in Elems : /\ flex_entry.dtype.nclip <= flex_tensor[i]
                        /\ flex_tensor[i] <= flex_entry.dtype.pclip
    /\ FlexRngDone =>
         \A i \in Elems :
            LET t == Trunc(out_float[i][1], out_float[i][2]) IN
            /\ t > flex_entry.dtype.pclip => flex_tensor[i] = flex_entry.dtype.pclip
            /\ t < flex_entry.dtype.nclip => flex_tensor[i] = flex_entry.dtype.nclip

\* C3: after FlexFillKernel.execute, maxabs is the absolute magnitude of the
\* value stored in the tensor, and it is not negative.
C3_MaxabsIsStoredMagnitude ==
    FlexFillDone =>
        /\ \A i \in Elems : flexfill.maxabs = Abs(flex_tensor[i])
        /\ flexfill.maxabs >= 0

\* A fill that was clipped on the negative side.
C3_Witness ==
    /\ FlexFillDone
    /\ val < flex_entry.dtype.nclip
    /\ \A i \in Elems : flex_tensor[i] = flex_entry.dtype.nclip
    /\ flexfill.maxabs = -flex_entry.dtype.nclip

C17_ExecuteWithoutScaleFails ==
    /\ []((last_call = "FlexFillKernel.execute" /\ "scale" \notin flexfill.attrs)
            => /\ raised = "AttributeError"
               /\ "maxabs" \notin flexfill.attrs
               /\ flexfill.maxabs = NoFlexFill.maxabs)
    /\ [][(last_call' = "FlexFillKernel.execute" /\ "scale" \notin flexfill.attrs)
            => /\ flex_tensor' = flex_tensor
               /\ flexfill' = flexfill
               /\ val' = val]_vars

\* The failed execute of a bound kernel without a scale.
C17_Witness ==
    /\ last_call = "FlexFillKernel.execute"
    /\ raised = "AttributeError"
    /\ flexfill.phase = "bound"
    /\ "scale" \notin flexfill.attrs
    /\ flexfill.value # <<0, 1>>

-----------------------------------------------------------------------------
(* Properties of RngFillKernel *)

\* C10: an RngFill with a distribution tag other than 'uniform' or 'normal'
\* fails at construction with UnsupportedDistribution, so no kernel object with
\* such a tag ever exists to be bound or executed.
C10_FailsFastAtConstruction ==
    /\ rngfill.phase # "absent" => rngfill.distribution \in {"uniform", "normal"}
    /\ (last_call = "RngFillKernel.__init__" /\ rngfill.phase = "absent")
          => raised = "UnsupportedDistribution"

RngCalls ==
    { "RngFillKernel.__init__", "RngFillKernel.bind_buffers",
      "RngFillKernel.execute" }
FlexRngCalls ==
    { "FlexRngFillKernel.__init__", "FlexRngFillKernel.bind_buffers",
      "FlexRngFillKernel.execute" }

\* C18: for a RngFillKernel and for a FlexRngFillKernel whose distribution tag
\* is neither 'uniform' nor 'normal', __init__, bind_buffers and every execute
\* return without an error, the kernel keeps the tag it was given, and an
\* execute leaves the destination tensor (and the kernel) as it was.
C18_OtherTagExecutesAsNoOp ==
    /\ []((last_call \in RngCalls /\ rngfill.distribution \in OtherTags)
            => raised = "" /\ rngfill.phase # "absent")
    /\ []((last_call \in FlexRngCalls /\ flexrng.distribution \in OtherTags)
            => raised = "" /\ flexrng.phase # "absent")
    /\ [][ /\ (last_call' = "RngFillKernel.execute"
                  /\ rngfill.distribution \notin {"uniform", "normal"})
               => rng_out' = rng_out /\ rngfill' = rngfill
           /\ (last_call' = "FlexRngFillKernel.execute"
                  /\ flexrng.distribution \notin {"uniform", "normal"})
               => /\ flex_tensor' = flex_tensor /\ out_float' = out_float
                  /\ flexrng' = flexrng ]_vars

\* A bound RngFillKernel tagged 'poisson' has just executed, next to a bound
\* FlexRngFillKernel tagged 'poisson' that has no scale.
C18_Witness ==
    /\ last_call = "RngFillKernel.execute" /\ raised = ""
    /\ rngfill.phase = "bound" /\ rngfill.distribution = "poisson"
    /\ flexrng.phase = "bound" /\ flexrng.distribution = "poisson"
    /\ "scale" \notin flexrng.attrs

-----------------------------------------------------------------------------
(* Properties of Send / Recv *)

C5_DestinationEqualsSnapshot ==
    \A p \in Pairs :
        (recv[p].pc = "idle" /\ get_log[p] # <<>>) =>
            recv[p].data = put_log[p][Len(get_log[p])]

\* A completed transfer of a 1-D tensor whose elements differ.
C5_Witness ==
    \E p \in Pairs :
        /\ recv[p].pc = "idle" /\ get_log[p] # <<>>
        /\ recv[p].shape # <<>>
        /\ recv[p].data[1] # recv[p].data[2]
        /\ recv[p].data = put_log[p][Len(get_log[p])]

\* Everything pair p's sending endpoint can have sent.
OwnValues(p) == SrcData(p, send[p].shape) \cup {Zeros(send[p].shape)}

\* C6: with two pairs on two channels running concurrently, a Recv obtains and
\* stores only values of its own Send, and a step of one pair leaves the other
\* channel's contents and order as they were.
C6_ChannelsIndependent ==
    /\ [](\A p \in Pairs :
            /\ \A k \in DOMAIN get_log[p] : get_log[p][k] \in OwnValues(p)
            /\ \A k \in DOMAIN shared_q[p] : shared_q[p][k] \in OwnValues(p)
            /\ recv[p].data \in OwnValues(p))
    /\ [][\A p \in Pairs :
            (send'[p] = send[p] /\ recv'[p] = recv[p]) =>
                /\ shared_q'[p] = shared_q[p]
                /\ put_log'[p] = put_log[p]
                /\ get_log'[p] = get_log[p]]_vars

\* Both pairs have a completed transfer, each of its own value.
C6_Witness ==
    \A p \in Pairs :
        /\ Len(get_log[p]) = 1
        /\ recv[p].pc = "idle"
        /\ recv[p].data \in SrcData(p, send[p].shape)

\* The channel has never been put on: no Send that puts on it has completed.
NeverPutOn(c) == \A s \in Pairs : send[s].q = c => put_log[s] = <<>>

\* C12: a Recv whose execute waits in q.get() on an empty channel stays there,
\* with its destination and the values it has obtained unchanged, through
\* every step taken while the channel is empty; and as long as no Send has put
\* on that channel the Recv has obtained nothing, is not storing anything and
\* its destination is as it was created.  Hence a Recv on a channel no Send
\* ever puts on never completes.
C12_RecvWaitsForPut ==
    /\ [](\A p \in Pairs :
            (recv[p].pc # "idle" /\ NeverPutOn(recv[p].q)) =>
                /\ recv[p].pc = "get"
                /\ get_log[p] = <<>>
                /\ recv[p].data = Zeros(recv[p].shape))
    /\ [][\A p \in Pairs :
            (recv[p].pc = "get" /\ shared_q[recv[p].q] = <<>>) =>
                /\ recv'[p] = recv[p]
                /\ get_log'[p] = get_log[p]]_vars

\* A Recv waiting on an empty channel that has been put on and drained before,
\* next to a Recv waiting on a channel never put on.
C12_Witness ==
    \E p, r \in Pairs :
        /\ recv[p].pc = "get" /\ shared_q[recv[p].q] = <<>>
        /\ Len(get_log[p]) = 1
        /\ recv[r].pc = "get" /\ NeverPutOn(recv[r].q)
        /\ send[r].phase = "bound"

\* The values pair s's Send has put so far.
PutBy(s) == { put_log[s][k] : k \in DOMAIN put_log[s] }

\* C19: a SendKernel's channel is the one its op referred to when the kernel
\* was constructed and is never changed afterwards, also not when the op is
\* given another channel, and every put goes on that channel; a RecvKernel
\* takes, at the start of each execute, the channel its op refers to at that
\* moment, and its get removes the oldest value of that channel.  So a Recv
\* obtains a value of a Send only when the channel it read from its op is the
\* channel that Send captured.
C19_SendCapturesRecvRereads ==
    [][\A p \in Pairs :
         /\ (send[p].phase = "absent" /\ send'[p].phase # "absent") =>
               send'[p].q = send[p].op_shared_q
         /\ send[p].phase # "absent" => send'[p].q = send[p].q
         /\ put_log'[p] # put_log[p] =>
               /\ put_log'[p] = Append(put_log[p], send[p].value)
               /\ shared_q' = [shared_q EXCEPT
                                 ![send[p].q] = Append(@, send[p].value)]
         /\ (recv[p].pc = "idle" /\ recv'[p].pc = "get") =>
               recv'[p].q = recv[p].op_shared_q
         /\ recv[p].pc = "get" => recv'[p].q = recv[p].q
         /\ get_log'[p] # get_log[p] =>
               /\ shared_q[recv[p].q] # <<>>
               /\ get_log'[p] = Append(get_log[p], Head(shared_q[recv[p].q]))
               /\ shared_q' = [shared_q EXCEPT ![recv[p].q] = Tail(@)]
               /\ \E s \in Pairs :
                     /\ send[s].q = recv[p].q
                     /\ Head(shared_q[recv[p].q]) \in PutBy(s) ]_vars

\* Both ops of pair p were given the other pair's channel: the Recv has since
\* obtained a value of the other pair's Send, while the Send kernel is still
\* on its first channel, where a value of its own is in flight.
C19_Witness ==
    \E p, r \in Pairs :
        /\ p # r
        /\ recv[p].op_shared_q = r /\ recv[p].q = r
        /\ get_log[p] # <<>>
        /\ get_log[p][Len(get_log[p])] = send[r].data
        /\ send[p].op_shared_q = r /\ send[p].q = p
        /\ shared_q[p] = <<send[p].data>>

-----------------------------------------------------------------------------
(* Properties of the parameter lists *)

\* The parameter lists as construction built them.
DimShuffleParams0 ==
    LET out == TensorDescriptionWrapper(dimshuffle.op.out, 2)
        in_tensor == TensorDescriptionWrapper(dimshuffle.op.arg, 2)
    IN get_dimshuffle(out.dtype, in_tensor.shape, dimshuffle.op.old_axis_positions,
                      in_tensor, out).params
SetItemParams0 ==
    get_dimshuffle(setitem.op.tensor.dtype, setitem.op.tensor.shape,
                   Range(Len(setitem.op.tensor.shape)),
                   TensorDescriptionWrapper(setitem.op.value, 1),
                   TensorDescriptionWrapper(setitem.op.tensor, 1)).params

\* params is p0 with every descriptor resolved to its address, and every
\* descriptor entry of p0 was handed to pointer_from_td once, no other entry ever.
ResolvedOnce(params, counts, p0) ==
    /\ Len(params) = Len(p0)
    /\ \A i \in DOMAIN p0 :
         /\ params[i].kind # "td"
         /\ IF p0[i].kind = "td"
            THEN params[i] = [kind |-> "ptr", v |-> Addr(p0[i].v)] /\ counts[i] = 1
            ELSE params[i] = p0[i] /\ counts[i] = 0

\* C7: from the first bind_buffers on, whatever bind_buffers and execute calls
\* follow, params of a DimShuffleKernel (and of a SetItemKernel that has the
\* fallback kernel) holds no tensor descriptor, every descriptor entry has been
\* resolved exactly once, and the list is otherwise as it was built.
C7_ParamsResolvedExactlyOnce ==
    /\ binds.ds >= 1 =>
         ResolvedOnce(dimshuffle.params, ptr_calls.ds, DimShuffleParams0)
    /\ (binds.si >= 1 /\ setitem.kernel.exists) =>
         ResolvedOnce(setitem.params, ptr_calls.si, SetItemParams0)

\* Both kernels were bound twice and executed after that.
C7_Witness ==
    /\ binds.ds = 2 /\ calls.ds # <<>>
    /\ binds.si = 2 /\ calls.si # <<>> /\ setitem.kernel.exists
    /\ \E i \in DOMAIN dimshuffle.params : dimshuffle.params[i].kind = "ptr"

\* The list P holds, position by position: the destination descriptor, the
\* source descriptor, the kernel's arguments, the source strides, the
\* destination strides, and nothing else.
InOrder(P, kernel, src, dst) ==
    LET na == Len(kernel.args)
        ns == Len(src.strides)
        nd == Len(dst.strides)
    IN /\ Len(P) = 2 + na + ns + nd
       /\ P[1] = [kind |-> "td", v |-> dst.td]
       /\ P[2] = [kind |-> "td", v |-> src.td]
       /\ \A k \in 1 .. na : P[2 + k] = [kind |-> "arg", v |-> kernel.args[k]]
       /\ \A k \in 1 .. ns :
             P[2 + na + k] = [kind |-> "arg", v |-> src.strides[k]]
       /\ \A k \in 1 .. nd :
             P[2 + na + ns + k] = [kind |-> "arg", v |-> dst.strides[k]]

\* C14: the parameter list get_dimshuffle returned to a constructor (of a
\* DimShuffleKernel, or of a SetItemKernel taking the fallback) is, in this
\* order, the destination descriptor, the source descriptor, every argument of
\* the kernel handle, every source stride and every destination stride; its
\* length is 2 + len(kernel.args) + len(src.strides) + len(dst.strides).
C14_ParamsOrderAndLength ==
    /\ dimshuffle.phase = "constructed" =>
         InOrder(dimshuffle.params, dimshuffle.kernel,
                 TensorDescriptionWrapper(dimshuffle.op.arg, 2),
                 TensorDescriptionWrapper(dimshuffle.op.out, 2))
    /\ (setitem.phase = "constructed" /\ setitem.kernel.exists) =>
         InOrder(setitem.params, setitem.kernel,
                 TensorDescriptionWrapper(setitem.op.value, 1),
                 TensorDescriptionWrapper(setitem.op.tensor, 1))

\* Both constructors have received a list, the DimShuffle one for two
\* dimensions whose source and destination strides differ.
C14_Witness ==
    /\ dimshuffle.phase = "constructed"
    /\ Len(dimshuffle.params) = 8
    /\ dimshuffle.op.arg.strides # dimshuffle.op.out.strides
    /\ setitem.phase = "constructed" /\ setitem.kernel.exists
    /\ Len(setitem.params) > 2

\* C15: a step in which DimShuffleKernel.execute or SetItemKernel.execute
\* issues its device call leaves the kernel object as it was: params, the
\* kernel handle, the resolved references and the bound phase, with no
\* descriptor resolved and no binding made by that step; and every launch
\* issued so far was given the handle and the resolved parameter list the
\* kernel still holds.
C15_ExecuteKeepsBinding ==
    /\ [][ /\ calls'.ds # calls.ds =>
                 /\ dimshuffle' = dimshuffle
                 /\ ptr_calls'.ds = ptr_calls.ds /\ binds'.ds = binds.ds
           /\ calls'.si # calls.si =>
                 /\ setitem' = setitem
                 /\ ptr_calls'.si = ptr_calls.si /\ binds'.si = binds.si ]_vars
    /\ [](\A k \in DOMAIN calls.ds :
            /\ calls.ds[k].params = dimshuffle.params
            /\ calls.ds[k].kernel = dimshuffle.kernel
            /\ \A i \in DOMAIN calls.ds[k].params :
                  calls.ds[k].params[i].kind # "td")
    /\ [](\A k \in DOMAIN calls.si :
            calls.si[k].fn = "prepared_async_call" =>
                /\ calls.si[k].params = setitem.params
                /\ calls.si[k].kernel = setitem.kernel
                /\ \A i \in DOMAIN calls.si[k].params :
                      calls.si[k].params[i].kind # "td")

\* Both kernels bound once and executed twice, SetItem through its fallback.
C15_Witness ==
    /\ binds.ds = 1 /\ Len(calls.ds) = 2
    /\ binds.si = 1 /\ Len(calls.si) = 2
    /\ calls.si[2].fn = "prepared_async_call"
    /\ calls.ds[1] = calls.ds[2]

-----------------------------------------------------------------------------
(* Properties of SetItemKernel *)

\* The entry refers to the tensor of descriptor id, resolved or not.
RefersTo(e, id) ==
    \/ e = [kind |-> "td", v |-> id]
    \/ e = [kind |-> "ptr", v |-> Addr(id)]

\* C8: a constructed SetItemKernel has the Dimshuffle fallback kernel exactly
\* when its destination has a dimension, one of its strides is negative and item
\* is None; the kernel is generated for the identity permutation with the
\* destination as dst (first parameter) and the source as src (second
\* parameter); otherwise kernel is None.
C8_FallbackIffNegativeStrideNoItem ==
    setitem.phase # "absent" =>
        LET t == setitem.op.tensor IN
        /\ setitem.kernel.exists <=>
              /\ Len(t.shape) >= 1
              /\ \E i \in DOMAIN t.strides : t.strides[i] < 0
              /\ setitem.op.item.none
        /\ setitem.kernel.exists =>
              /\ setitem.kernel.axes = [i \in 1 .. Len(t.shape) |-> i - 1]
              /\ setitem.kernel.shape = t.shape
              /\ RefersTo(setitem.params[1], t.id)
              /\ RefersTo(setitem.params[2], setitem.op.value.id)
        /\ ~setitem.kernel.exists => setitem.kernel = NoKernel

\* A kernel constructed with the fallback for a 2-D destination whose second
\* stride is the negative one.
C8_Witness ==
    /\ setitem.phase = "constructed"
    /\ setitem.kernel.exists
    /\ setitem.op.tensor.strides = <<2, -1>>

\* What one execute of the kernel must have issued.
ExpectedBranch ==
    IF setitem.kernel.exists THEN "prepared_async_call"
    ELSE IF setitem.op.tensor.shape = <<>> THEN "fill"
    ELSE "__setitem__"

\* C9: every execute of a SetItemKernel issues one call, chosen in this order:
\* the fallback kernel with the bound params if there is one, else a fill of the
\* destination if its shape is (), else the assignment under item; all executes
\* of one kernel make the same choice.
C9_ExecuteBranchPriority ==
    /\ \A k \in DOMAIN calls.si :
         LET c == calls.si[k] IN
         /\ c.fn = ExpectedBranch
         /\ c.fn = "prepared_async_call" =>
               c.kernel = setitem.kernel /\ c.params = setitem.params
         /\ c.fn = "__setitem__" => c.item = setitem.op.item
    /\ calls.si # <<>> =>
         LET v == setitem.op.value.data
             t == setitem.op.tensor
             it == setitem.op.item
             row == IF t.shape = <<>> THEN 1 ELSE Prod(Tail(t.shape))
         IN \A i \in DOMAIN dest :
              IF ExpectedBranch = "fill" THEN dest[i] = v[1]
              ELSE IF ExpectedBranch = "prepared_async_call" \/ it.none
              THEN dest[i] = (IF Len(v) = 1 THEN v[1] ELSE v[i])
              ELSE IF it.lo * row < i /\ i <= it.hi * row
              THEN dest[i] = (IF Len(v) = 1 THEN v[1] ELSE v[i - it.lo * row])
              ELSE dest[i] = 0

\* Two executes of a kernel without fallback on a non-scalar destination under
\* a slice.
C9_Witness ==
    /\ Len(calls.si) = 2
    /\ ~setitem.kernel.exists
    /\ setitem.op.tensor.shape # <<>>
    /\ ~setitem.op.item.none
    /\ calls.si[1].fn = "__setitem__" /\ calls.si[2].fn = "__setitem__"

-----------------------------------------------------------------------------
(* Properties of construction and of FillKernel *)

Constructors ==
    { "FillKernel.__init__", "FlexFillKernel.__init__",
      "FlexRngFillKernel.__init__" }

C13_FillSetsEveryElement ==
    last_call = "FillKernel.execute" =>
        /\ fillkernel.phase = "bound"
        /\ DOMAIN fill_tensor.data = 1 .. Size(fill_tensor.shape)
        /\ \A i \in DOMAIN fill_tensor.data :
              fill_tensor.data[i] = fillkernel.value

\* A flat tensor filled with a value none of its elements held before.
C13_Witness ==
    /\ last_call = "FillKernel.execute"
    /\ fill_tensor.shape # <<>>
    /\ fillkernel.value = 3
    /\ \A i \in DOMAIN fill_tensor.data : fill_tensor.data[i] = 3

====
